---- MODULE Spec2Model ----
(***************************************************************************)
(* mpmc_bq<T>: the bounded multi-producer / multi-consumer queue of        *)
(* storage/innobase/include/ut0mpmcbq.h (Vyukov's sequenced-cell ring).    *)
(*                                                                         *)
(* Every access to a shared location (a cursor, a cell's m_pos, a cell's   *)
(* m_data) is one atomic step of the calling thread; the computation       *)
(* between two shared accesses is local and is folded into the step that   *)
(* precedes it.  Threads interleave arbitrarily and every load returns the *)
(* latest store (the interleaving semantics the properties are stated in). *)
(* compare_exchange_weak succeeds, fails because the cursor moved, or      *)
(* fails spuriously.  size_t arithmetic is modulo 2^WordBits and the       *)
(* intptr_t difference is its two's-complement reading.                    *)
(*                                                                         *)
(* The variables under "observation" record the run (tickets, values,      *)
(* what held during a call); no action of the queue reads them.  Next to   *)
(* the size_t values the same statements are carried out on unbounded      *)
(* integers (W_enq, W_deq, W_ring, W_pos), to compare the branches taken.  *)
(*                                                                         *)
(* Spec      a bounded run recorded ticket by ticket (MaxVals enqueues).   *)
(* FairSpec  Spec with thread 1 scheduled fairly.                          *)
(* LongSpec  a run of any length without the per-ticket record: the        *)
(*           cursors pass 2^WordBits.                                      *)
(***************************************************************************)
EXTENDS Integers, Sequences, FiniteSets

\* ------------------------------------------------------------------ bounds
\* Width of size_t / intptr_t in the model.
WordBits == 4
\* Constructor arguments tried: 0 .. MaxElems.
MaxElems == 6
\* Number of threads using the queue.
NumThreads == 2
\* Number of enqueue calls issued in a run (each carries a fresh value).
MaxVals == 5
\* In a run of any length: how many tickets a cursor may be ahead of the pos
\* of a thread that is in a call.
MaxLag == 5

Word == 2 ^ WordBits
Threads == 1 .. NumThreads
\* The payload of a cell nobody has written yet.
Garbage == 0
\* The caller's output variable before any dequeue wrote it.
NoVal == -1

\* --------------------------------------------------------------- arithmetic
\* size_t addition.
Add(a, b) == (a + b) % Word

\* size_t subtraction.
Sub(a, b) == (a + Word - b) % Word

\* The difference without the casts to intptr_t.
SignedDiff_Unsigned(a, b) == Sub(a, b)

\* (intptr_t)a - (intptr_t)b
SignedDiff(a, b) ==
    LET d == Sub(a, b)
    IN  IF d >= Word \div 2 THEN d - Word ELSE d

RECURSIVE BitAnd(_, _)
\* a & b on size_t
BitAnd(a, b) ==
    IF a = 0 \/ b = 0 THEN 0
    ELSE (a % 2) * (b % 2) + 2 * BitAnd(a \div 2, b \div 2)

\* The assertion without its lower bound.
CtorAssert_NoMin(n) == BitAnd(n, Sub(n, 1)) = 0

\* The constructor's assertion.
CtorAssert(n) == (n >= 2) /\ (BitAnd(n, Sub(n, 1)) = 0)

VARIABLES
    \* ---- the queue object
    ctor,            \* "none" | "ok" | "aborted"
    m_capacity,      \* n_elems - 1
    m_ring_pos,      \* cell index -> Cell::m_pos
    m_ring_data,     \* cell index -> Cell::m_data
    m_enqueue_pos,
    m_dequeue_pos,
    \* ---- each thread's call frame
    pc,              \* where the thread stands
    op,              \* the call it is in, or made last
    pos,             \* local pos
    seq,             \* local seq
    cell,            \* local cell, as a ring index
    data,            \* enqueue's argument
    out,             \* the variable the caller passes to dequeue
    ret,             \* what the last finished call returned
    \* ---- observation of the run (never read by the queue's code)
    n_elems,         \* the constructor's argument
    next_val,        \* the next fresh value to enqueue
    enq_log,         \* values in the order m_enqueue_pos was advanced
    deq_log,         \* <<ticket, value>> of every dequeue that returned true
    n_deq_ok,        \* how many dequeues returned true
    published,       \* tickets whose enqueue did its release store
    rearmed,         \* tickets whose dequeue did its release store
    seen,            \* what held in some state of the thread's running call
    solo,            \* the running call started alone and nobody else stepped since
    wrote,           \* the running call changed a shared location or the output
    seq_run,         \* no two calls have overlapped so far
    ref,             \* the reference FIFO of a sequential run
    exp,             \* thread -> what the reference FIFO answers its running call
    logging,         \* the run is recorded ticket by ticket (a bounded run)
    \* ---- the same run computed with unbounded integers
    W_enq,           \* m_enqueue_pos
    W_deq,           \* m_dequeue_pos
    W_ring,          \* cell index -> Cell::m_pos
    W_pos,           \* thread -> local pos
    diverged         \* some branch so far went another way than with unbounded integers

queue_vars == <<ctor, m_capacity, m_ring_pos, m_ring_data, m_enqueue_pos, m_dequeue_pos>>
frame_vars == <<pc, op, pos, seq, cell, data, out, ret>>
log_vars == <<n_elems, next_val, enq_log, deq_log, n_deq_ok, published, rearmed, logging>>
call_vars == <<seen, solo, wrote, seq_run, ref, exp>>
wide_vars == <<W_enq, W_deq, W_ring, W_pos, diverged>>
vars == <<queue_vars, frame_vars, log_vars, call_vars, wide_vars>>

\* The shared locations of the queue.
Shared == <<m_enqueue_pos, m_dequeue_pos, m_ring_pos, m_ring_data>>

\* capacity()
Capacity == Add(m_capacity, 1)

\* &m_ring[p & m_capacity]
CellOf(p) == BitAnd(p, m_capacity)

NoExp == [r |-> "none", o |-> NoVal]

\* The object before its constructor has run, and no thread in a call.
Start ==
    /\ ctor = "none"
    /\ m_capacity = 0
    /\ m_ring_pos = <<>>
    /\ m_ring_data = <<>>
    /\ m_enqueue_pos = 0
    /\ m_dequeue_pos = 0
    /\ pc = [t \in Threads |-> "idle"]
    /\ op = [t \in Threads |-> "none"]
    /\ pos = [t \in Threads |-> 0]
    /\ seq = [t \in Threads |-> 0]
    /\ cell = [t \in Threads |-> 0]
    /\ data = [t \in Threads |-> Garbage]
    /\ out = [t \in Threads |-> NoVal]
    /\ ret = [t \in Threads |-> "none"]
    /\ n_elems = 0
    /\ next_val = 1
    /\ enq_log = <<>>
    /\ deq_log = {}
    /\ n_deq_ok = 0
    /\ published = {}
    /\ rearmed = {}
    /\ seen = [t \in Threads |-> {}]
    /\ solo = [t \in Threads |-> FALSE]
    /\ wrote = [t \in Threads |-> FALSE]
    /\ seq_run = TRUE
    /\ ref = <<>>
    /\ exp = [t \in Threads |-> NoExp]
    /\ W_enq = 0
    /\ W_deq = 0
    /\ W_ring = <<>>
    /\ W_pos = [t \in Threads |-> 0]
    /\ diverged = FALSE

\* A bounded run, recorded ticket by ticket.
Init == Start /\ logging = TRUE

\* mpmc_bq(n): m_capacity(n_elems - 1), the assertion, then the stores.
Construct(n) ==
    /\ ctor = "none"
    /\ n_elems' = n
    /\ m_capacity' = Sub(n, 1)
    /\ IF CtorAssert(n)
         THEN /\ ctor' = "ok"
              /\ m_ring_pos' = [i \in 0 .. n - 1 |-> i]
              /\ m_ring_data' = [i \in 0 .. n - 1 |-> Garbage]
              /\ W_ring' = [i \in 0 .. n - 1 |-> i]
         ELSE /\ ctor' = "aborted"
              /\ UNCHANGED <<m_ring_pos, m_ring_data, W_ring>>
    /\ m_enqueue_pos' = 0
    /\ m_dequeue_pos' = 0
    /\ UNCHANGED frame_vars
    /\ UNCHANGED <<next_val, enq_log, deq_log, n_deq_ok, published, rearmed, logging>>
    /\ UNCHANGED call_vars
    /\ UNCHANGED <<W_enq, W_deq, W_pos, diverged>>

\* ------------------------------------------------------------ observation
\* The oldest ticket not in S (tickets are issued 0, 1, 2, ...).
Oldest(S) == CHOOSE p \in 0 .. Cardinality(S) : p \notin S /\ \A q \in 0 .. p - 1 : q \in S

\* What an observer of the whole queue sees in a state with cursors e and d,
\* published tickets pub and re-armed tickets rea, as far as call o cares:
\*   full         e - d = n_elems
\*   items_full   n_elems tickets are published and not re-armed
\*   slot_full    e - (oldest ticket not yet re-armed) = n_elems
\*   empty        e = d
\*   nonempty     e # d
\*   items_empty  no ticket is published and not re-armed
\*   slot_empty   d = oldest ticket not yet published
ObsOf(o, e, d, pub, rea) ==
    IF o = "enqueue"
      THEN (IF Sub(e, d) = n_elems THEN {"full"} ELSE {})
           \cup (IF Cardinality(pub \ rea) = n_elems THEN {"items_full"} ELSE {})
           \cup (IF Sub(e, Oldest(rea)) = n_elems THEN {"slot_full"} ELSE {})
    ELSE IF o = "dequeue"
      THEN (IF e = d THEN {"empty"} ELSE {})
           \cup (IF pub \ rea = {} THEN {"items_empty"} ELSE {})
           \cup (IF d = Oldest(pub) THEN {"slot_empty"} ELSE {})
    ELSE IF o = "empty"
      THEN (IF e = d THEN {"empty"} ELSE {"nonempty"})
           \cup (IF pub \ rea = {} THEN {"items_empty"} ELSE {"items_nonempty"})
           \cup (IF d = Oldest(pub) THEN {"slot_empty"} ELSE {"slot_nonempty"})
    ELSE {}

\* The reference FIFO's answer to call o with output variable x.
RefAnswer(o, x) ==
    IF o = "enqueue" THEN [r |-> IF Len(ref) < n_elems THEN "true" ELSE "false", o |-> x]
    ELSE IF o = "dequeue"
      THEN IF Len(ref) > 0 THEN [r |-> "true", o |-> Head(ref)]
                           ELSE [r |-> "false", o |-> x]
    ELSE [r |-> IF Len(ref) = 0 THEN "true" ELSE "false", o |-> x]

\* The reference FIFO after call o with argument v.
RefAfter(o, v) ==
    IF o = "enqueue" THEN (IF Len(ref) < n_elems THEN Append(ref, v) ELSE ref)
    ELSE IF o = "dequeue" THEN (IF Len(ref) > 0 THEN Tail(ref) ELSE ref)
    ELSE ref

Alone(t) == \A u \in Threads \ {t} : pc[u] = "idle"

\* ---- the run with unbounded integers
\* -1, 0 or 1: the branch a diff selects.
Sgn(d) == IF d < 0 THEN -1 ELSE IF d = 0 THEN 0 ELSE 1

\* diff of enqueue, unbounded
WEnqDiff(s, p) == s - p

\* diff of dequeue and empty, unbounded
WDeqDiff(s, p) == s - (p + 1)

\* pos + 1 of the producer's release store, unbounded
WPublishValue(p) == p + 1

\* pos + m_capacity + 1 of the consumer's release store, unbounded
WRearmValue(p) == p + m_capacity + 1

\* The cursor call o works on, unbounded.
WCursor(o) == IF o = "enqueue" THEN W_enq ELSE W_deq

\* The branch on diff that thread t takes in this step: -1 for diff < 0,
\* 0 for diff == 0, 1 for diff > 0.
BranchTaken(t) ==
    IF pc'[t] \in {"e_cas", "d_cas"} THEN 0
    ELSE IF pc'[t] \in {"e_reload", "d_reload", "m_reload"} THEN 1
    ELSE IF op[t] = "empty" /\ ret'[t] = "false" THEN 0
    ELSE -1

\* The step of thread t taken on the unbounded copies: the same statement
\* with the same outcome of a weak CAS.  bad: the branch taken on the
\* size_t values is not the branch the unbounded values select.
WideStep(t) ==
    LET wp == W_pos[t]
        wc == CellOf(wp)
        same == [enq |-> W_enq, deq |-> W_deq, ring |-> W_ring, pos |-> W_pos, bad |-> FALSE]
    IN  IF pc[t] = "idle"
          THEN [same EXCEPT !.pos[t] = WCursor(op'[t])]
        ELSE IF pc[t] = "e_seq"
          THEN [same EXCEPT !.bad = Sgn(WEnqDiff(W_ring[wc], wp)) # BranchTaken(t)]
        ELSE IF pc[t] \in {"d_seq", "m_seq"}
          THEN [same EXCEPT !.bad = Sgn(WDeqDiff(W_ring[wc], wp)) # BranchTaken(t)]
        ELSE IF pc[t] = "e_cas"
          THEN [same EXCEPT !.bad = (W_enq = wp) # (m_enqueue_pos = pos[t]),
                            !.enq = IF pc'[t] = "e_write" THEN wp + 1 ELSE W_enq,
                            !.pos[t] = IF m_enqueue_pos # pos[t] THEN W_enq ELSE wp]
        ELSE IF pc[t] = "d_cas"
          THEN [same EXCEPT !.bad = (W_deq = wp) # (m_dequeue_pos = pos[t]),
                            !.deq = IF pc'[t] = "d_read" THEN wp + 1 ELSE W_deq,
                            !.pos[t] = IF m_dequeue_pos # pos[t] THEN W_deq ELSE wp]
        ELSE IF pc[t] = "e_reload"
          THEN [same EXCEPT !.pos[t] = W_enq]
        ELSE IF pc[t] \in {"d_reload", "m_reload"}
          THEN [same EXCEPT !.pos[t] = W_deq]
        ELSE IF pc[t] = "e_pub"
          THEN [same EXCEPT !.ring = [W_ring EXCEPT ![wc] = WPublishValue(wp)]]
        ELSE IF pc[t] = "d_rearm"
          THEN [same EXCEPT !.ring = [W_ring EXCEPT ![wc] = WRearmValue(wp)]]
        ELSE same

\* The multiple of 2^WordBits that every unbounded copy in use has passed.
Passed(r) ==
    IF /\ r.enq >= Word
       /\ r.deq >= Word
       /\ \A i \in DOMAIN r.ring : r.ring[i] >= Word
       /\ \A u \in Threads : pc'[u] = "idle" \/ r.pos[u] >= Word
      THEN Word ELSE 0

\* The unbounded copies become r less base.  A run that is not recorded
\* ticket by ticket ends where a branch disagrees, and no thread in it
\* falls further than MaxLag behind its cursor.
StoreWide(r, base) ==
    IF r.bad
      THEN /\ diverged' = TRUE
           /\ W_enq' = 0
           /\ W_deq' = 0
           /\ W_ring' = [i \in DOMAIN W_ring |-> 0]
           /\ W_pos' = [u \in Threads |-> 0]
      ELSE /\ diverged' = FALSE
           /\ W_enq' = r.enq - base
           /\ W_deq' = r.deq - base
           /\ W_ring' = [i \in DOMAIN W_ring |-> r.ring[i] - base]
           /\ W_pos' = [u \in Threads |-> IF pc'[u] = "idle" THEN 0 ELSE r.pos[u] - base]
           /\ logging \/ \A u \in Threads :
                            pc'[u] # "idle" =>
                                (IF op'[u] = "enqueue" THEN r.enq ELSE r.deq)
                                    - r.pos[u] <= MaxLag

ShiftWide(r) == StoreWide(r, IF logging THEN 0 ELSE Passed(r))

\* The unbounded copies after the step of thread t.  They are kept while
\* every branch agrees, less the multiple of 2^WordBits that all of them
\* have passed (what is compared are their differences).
TrackWide(t) ==
    IF diverged
      THEN /\ logging
           /\ UNCHANGED wide_vars
      ELSE ShiftWide(WideStep(t))

\* The record of a step of thread t.  kind is "begin" (the call's first
\* step), "return" (its last) or "step".  What is recorded about a call is
\* dropped when the call returns.
Track(t, kind) ==
    /\ solo' = [u \in Threads |->
                  IF u = t THEN (IF kind = "begin" THEN Alone(t)
                                 ELSE IF kind = "return" THEN FALSE ELSE solo[t])
                  ELSE FALSE]
    /\ seen' = [u \in Threads |->
                  IF u = t
                    THEN IF kind = "return" \/ ~logging THEN {}
                         ELSE (IF kind = "begin" THEN {} ELSE seen[t])
                              \cup ObsOf(op'[t], m_enqueue_pos', m_dequeue_pos', published', rearmed')
                  ELSE IF pc[u] # "idle" /\ logging
                    THEN seen[u]
                         \cup ObsOf(op[u], m_enqueue_pos', m_dequeue_pos', published', rearmed')
                  ELSE {}]
    /\ wrote' = [wrote EXCEPT ![t] =
                  IF kind \in {"begin", "return"} THEN FALSE
                  ELSE @ \/ Shared' # Shared \/ out'[t] # out[t]]
    /\ IF kind = "begin"
         THEN IF seq_run /\ Alone(t)
                THEN /\ seq_run' = TRUE
                     /\ ref' = RefAfter(op'[t], data'[t])
                     /\ exp' = [exp EXCEPT ![t] = RefAnswer(op'[t], out'[t])]
                ELSE /\ seq_run' = FALSE
                     /\ ref' = <<>>
                     /\ exp' = [u \in Threads |-> NoExp]
         ELSE IF kind = "return"
                THEN /\ exp' = [exp EXCEPT ![t] = NoExp]
                     /\ UNCHANGED <<seq_run, ref>>
         ELSE UNCHANGED <<seq_run, ref, exp>>
    /\ TrackWide(t)

\* The call of thread t starts: the frame is fresh and the caller passes a
\* fresh output variable.
Call(t, o, at) ==
    /\ ctor = "ok"
    /\ pc[t] = "idle"
    /\ op' = [op EXCEPT ![t] = o]
    /\ pc' = [pc EXCEPT ![t] = at]
    /\ ret' = [ret EXCEPT ![t] = "none"]
    /\ out' = [out EXCEPT ![t] = NoVal]

\* return (r): the frame dies.
Return(t, r) ==
    /\ pc' = [pc EXCEPT ![t] = "idle"]
    /\ ret' = [ret EXCEPT ![t] = r]
    /\ pos' = [pos EXCEPT ![t] = 0]
    /\ seq' = [seq EXCEPT ![t] = 0]
    /\ cell' = [cell EXCEPT ![t] = 0]
    /\ data' = [data EXCEPT ![t] = Garbage]

\* ------------------------------------------------------------------ enqueue
\* The difference with a cell still held taken for a free one.
EnqDiff_Clamped(s, p) == IF SignedDiff(s, p) < 0 THEN 0 ELSE SignedDiff(s, p)

\* intptr_t diff = (intptr_t)seq - (intptr_t)pos
EnqDiff(s, p) == SignedDiff(s, p)

\* The release store without the increment.
PublishValue_NoInc(p) == p

\* the value of the producer's release store
PublishValue(p) == Add(p, 1)

\* size_t pos = m_enqueue_pos.load(relaxed)
Enq_Begin(t) ==
    /\ next_val <= MaxVals
    /\ Call(t, "enqueue", "e_seq")
    /\ data' = [data EXCEPT ![t] = next_val]
    /\ next_val' = IF logging THEN next_val + 1 ELSE next_val
    /\ pos' = [pos EXCEPT ![t] = m_enqueue_pos]
    /\ UNCHANGED <<queue_vars, seq, cell>>
    /\ UNCHANGED <<n_elems, enq_log, deq_log, n_deq_ok, published, rearmed, logging>>
    /\ Track(t, "begin")

\* cell = &m_ring[pos & m_capacity]; seq = cell->m_pos.load(acquire); diff;
\* the branch on diff, with "return (false)" when diff < 0.
Enq_LoadSeq(t) ==
    /\ pc[t] = "e_seq"
    /\ UNCHANGED <<queue_vars, op, out, log_vars>>
    /\ LET c == CellOf(pos[t])
           s == m_ring_pos[c]
           diff == EnqDiff(s, pos[t])
       IN  IF diff < 0
             THEN /\ Return(t, "false")
                  /\ Track(t, "return")
             ELSE /\ pc' = [pc EXCEPT ![t] = IF diff = 0 THEN "e_cas" ELSE "e_reload"]
                  /\ seq' = [seq EXCEPT ![t] = s]
                  /\ cell' = [cell EXCEPT ![t] = c]
                  /\ UNCHANGED <<ret, pos, data>>
                  /\ Track(t, "step")

\* The result of the CAS ignored: the producer goes on to write whether or
\* not it advanced the cursor.
Enq_CAS_ResultIgnored(t) ==
    /\ pc[t] = "e_cas"
    /\ m_enqueue_pos' = IF m_enqueue_pos = pos[t] THEN Add(pos[t], 1) ELSE m_enqueue_pos
    /\ pc' = [pc EXCEPT ![t] = "e_write"]
    /\ enq_log' = IF logging /\ m_enqueue_pos = pos[t] THEN Append(enq_log, data[t]) ELSE enq_log
    /\ UNCHANGED <<ctor, m_capacity, m_ring_pos, m_ring_data, m_dequeue_pos>>
    /\ UNCHANGED <<op, pos, seq, cell, data, out, ret>>
    /\ UNCHANGED <<n_elems, next_val, deq_log, n_deq_ok, published, rearmed, logging>>
    /\ Track(t, "step")

\* m_enqueue_pos.compare_exchange_weak(pos, pos + 1, relaxed): it succeeds,
\* fails and loads the cursor into pos, or fails spuriously.
Enq_CAS(t) ==
    /\ pc[t] = "e_cas"
    /\ \/ /\ m_enqueue_pos = pos[t]
          /\ m_enqueue_pos' = Add(pos[t], 1)
          /\ pc' = [pc EXCEPT ![t] = "e_write"]
          /\ enq_log' = IF logging THEN Append(enq_log, data[t]) ELSE enq_log
          /\ UNCHANGED <<ctor, m_capacity, m_ring_pos, m_ring_data, m_dequeue_pos>>
          /\ UNCHANGED <<op, pos, seq, cell, data, out, ret>>
          /\ UNCHANGED <<n_elems, next_val, deq_log, n_deq_ok, published, rearmed, logging>>
          /\ Track(t, "step")
       \/ /\ m_enqueue_pos # pos[t]
          /\ pos' = [pos EXCEPT ![t] = m_enqueue_pos]
          /\ pc' = [pc EXCEPT ![t] = "e_seq"]
          /\ UNCHANGED <<queue_vars, op, seq, cell, data, out, ret, log_vars>>
          /\ Track(t, "step")
       \/ /\ m_enqueue_pos = pos[t]
          /\ pc' = [pc EXCEPT ![t] = "e_seq"]
          /\ UNCHANGED <<queue_vars, op, pos, seq, cell, data, out, ret, log_vars>>
          /\ Track(t, "step")

\* The reload taken from the consumers' cursor.
Enq_Reload_WrongCursor(t) ==
    /\ pc[t] = "e_reload"
    /\ pos' = [pos EXCEPT ![t] = m_dequeue_pos]
    /\ pc' = [pc EXCEPT ![t] = "e_seq"]
    /\ UNCHANGED <<queue_vars, op, seq, cell, data, out, ret, log_vars>>
    /\ Track(t, "step")

\* pos = m_enqueue_pos.load(relaxed), in the diff > 0 branch
Enq_Reload(t) ==
    /\ pc[t] = "e_reload"
    /\ pos' = [pos EXCEPT ![t] = m_enqueue_pos]
    /\ pc' = [pc EXCEPT ![t] = "e_seq"]
    /\ UNCHANGED <<queue_vars, op, seq, cell, data, out, ret, log_vars>>
    /\ Track(t, "step")

\* cell->m_data = data
Enq_Write(t) ==
    /\ pc[t] = "e_write"
    /\ m_ring_data' = [m_ring_data EXCEPT ![cell[t]] = data[t]]
    /\ pc' = [pc EXCEPT ![t] = "e_pub"]
    /\ UNCHANGED <<ctor, m_capacity, m_ring_pos, m_enqueue_pos, m_dequeue_pos>>
    /\ UNCHANGED <<op, pos, seq, cell, data, out, ret, log_vars>>
    /\ Track(t, "step")

\* cell->m_pos.store(pos + 1, release); return (true)
Enq_Publish(t) ==
    /\ pc[t] = "e_pub"
    /\ m_ring_pos' = [m_ring_pos EXCEPT ![cell[t]] = PublishValue(pos[t])]
    /\ published' = IF logging THEN published \cup {pos[t]} ELSE published
    /\ Return(t, "true")
    /\ UNCHANGED <<ctor, m_capacity, m_ring_data, m_enqueue_pos, m_dequeue_pos>>
    /\ UNCHANGED <<op, out>>
    /\ UNCHANGED <<n_elems, next_val, enq_log, deq_log, n_deq_ok, rearmed, logging>>
    /\ Track(t, "return")

\* ------------------------------------------------------------------ dequeue
\* The consumer's difference taken against pos, as the producer's is.
DeqDiff_NoPlusOne(s, p) == SignedDiff(s, p)

\* auto diff = (intptr_t)seq - (intptr_t)(pos + 1)
DeqDiff(s, p) == SignedDiff(s, Add(p, 1))

\* The re-arming store without the + 1.
RearmValue_MaskOnly(p) == Add(p, m_capacity)

\* the value of the consumer's release store
RearmValue(p) == Add(Add(p, m_capacity), 1)

\* size_t pos = m_dequeue_pos.load(relaxed)
Deq_Begin(t) ==
    /\ Call(t, "dequeue", "d_seq")
    /\ pos' = [pos EXCEPT ![t] = m_dequeue_pos]
    /\ UNCHANGED <<queue_vars, seq, cell, data, log_vars>>
    /\ Track(t, "begin")

\* The payload copied out before the branch on diff.
Deq_LoadSeq_EarlyCopy(t) ==
    /\ pc[t] = "d_seq"
    /\ UNCHANGED <<queue_vars, op, log_vars>>
    /\ LET c == CellOf(pos[t])
           s == m_ring_pos[c]
           diff == DeqDiff(s, pos[t])
       IN  /\ out' = [out EXCEPT ![t] = m_ring_data[c]]
           /\ IF diff < 0
                THEN /\ Return(t, "false")
                     /\ Track(t, "return")
                ELSE /\ pc' = [pc EXCEPT ![t] = IF diff = 0 THEN "d_cas" ELSE "d_reload"]
                     /\ seq' = [seq EXCEPT ![t] = s]
                     /\ cell' = [cell EXCEPT ![t] = c]
                     /\ UNCHANGED <<ret, pos, data>>
                     /\ Track(t, "step")

\* The consumer waiting for the producer instead of returning false.
Deq_LoadSeq_Spin(t) ==
    /\ pc[t] = "d_seq"
    /\ UNCHANGED <<queue_vars, op, out, log_vars>>
    /\ LET c == CellOf(pos[t])
           s == m_ring_pos[c]
           diff == DeqDiff(s, pos[t])
       IN  /\ pc' = [pc EXCEPT ![t] = IF diff = 0 THEN "d_cas" ELSE "d_reload"]
           /\ seq' = [seq EXCEPT ![t] = s]
           /\ cell' = [cell EXCEPT ![t] = c]
           /\ UNCHANGED <<ret, pos, data>>
           /\ Track(t, "step")

\* cell = &m_ring[pos & m_capacity]; seq = cell->m_pos.load(acquire); diff;
\* the branch on diff, with "return (false)" when diff < 0.
Deq_LoadSeq(t) ==
    /\ pc[t] = "d_seq"
    /\ UNCHANGED <<queue_vars, op, out, log_vars>>
    /\ LET c == CellOf(pos[t])
           s == m_ring_pos[c]
           diff == DeqDiff(s, pos[t])
       IN  IF diff < 0
             THEN /\ Return(t, "false")
                  /\ Track(t, "return")
             ELSE /\ pc' = [pc EXCEPT ![t] = IF diff = 0 THEN "d_cas" ELSE "d_reload"]
                  /\ seq' = [seq EXCEPT ![t] = s]
                  /\ cell' = [cell EXCEPT ![t] = c]
                  /\ UNCHANGED <<ret, pos, data>>
                  /\ Track(t, "step")

\* m_dequeue_pos.compare_exchange_weak(pos, pos + 1, relaxed): it succeeds,
\* fails and loads the cursor into pos, or fails spuriously.
Deq_CAS(t) ==
    /\ pc[t] = "d_cas"
    /\ \/ /\ m_dequeue_pos = pos[t]
          /\ m_dequeue_pos' = Add(pos[t], 1)
          /\ pc' = [pc EXCEPT ![t] = "d_read"]
          /\ UNCHANGED <<ctor, m_capacity, m_ring_pos, m_ring_data, m_enqueue_pos>>
          /\ UNCHANGED <<op, pos, seq, cell, data, out, ret, log_vars>>
          /\ Track(t, "step")
       \/ /\ m_dequeue_pos # pos[t]
          /\ pos' = [pos EXCEPT ![t] = m_dequeue_pos]
          /\ pc' = [pc EXCEPT ![t] = "d_seq"]
          /\ UNCHANGED <<queue_vars, op, seq, cell, data, out, ret, log_vars>>
          /\ Track(t, "step")
       \/ /\ m_dequeue_pos = pos[t]
          /\ pc' = [pc EXCEPT ![t] = "d_seq"]
          /\ UNCHANGED <<queue_vars, op, pos, seq, cell, data, out, ret, log_vars>>
          /\ Track(t, "step")

\* pos = m_dequeue_pos.load(relaxed), in the diff > 0 branch
Deq_Reload(t) ==
    /\ pc[t] = "d_reload"
    /\ pos' = [pos EXCEPT ![t] = m_dequeue_pos]
    /\ pc' = [pc EXCEPT ![t] = "d_seq"]
    /\ UNCHANGED <<queue_vars, op, seq, cell, data, out, ret, log_vars>>
    /\ Track(t, "step")

\* data = cell->m_data
Deq_Read(t) ==
    /\ pc[t] = "d_read"
    /\ out' = [out EXCEPT ![t] = m_ring_data[cell[t]]]
    /\ pc' = [pc EXCEPT ![t] = "d_rearm"]
    /\ UNCHANGED <<queue_vars, op, pos, seq, cell, data, ret, log_vars>>
    /\ Track(t, "step")

\* cell->m_pos.store(pos + m_capacity + 1, release); return (true)
Deq_Rearm(t) ==
    /\ pc[t] = "d_rearm"
    /\ m_ring_pos' = [m_ring_pos EXCEPT ![cell[t]] = RearmValue(pos[t])]
    /\ rearmed' = IF logging THEN rearmed \cup {pos[t]} ELSE rearmed
    /\ deq_log' = IF logging THEN deq_log \cup {<<pos[t], out[t]>>} ELSE deq_log
    /\ n_deq_ok' = IF logging THEN n_deq_ok + 1 ELSE n_deq_ok
    /\ Return(t, "true")
    /\ UNCHANGED <<ctor, m_capacity, m_ring_data, m_enqueue_pos, m_dequeue_pos>>
    /\ UNCHANGED <<op, out>>
    /\ UNCHANGED <<n_elems, next_val, enq_log, published, logging>>
    /\ Track(t, "return")

\* -------------------------------------------------------------------- empty
\* size_t pos = m_dequeue_pos.load(relaxed)
Emp_Begin(t) ==
    /\ Call(t, "empty", "m_seq")
    /\ pos' = [pos EXCEPT ![t] = m_dequeue_pos]
    /\ UNCHANGED <<queue_vars, seq, cell, data, log_vars>>
    /\ Track(t, "begin")

\* cell = &m_ring[pos & m_capacity]; seq = cell->m_pos.load(acquire); diff;
\* return (false) when diff == 0, return (true) when diff < 0.
Emp_LoadSeq(t) ==
    /\ pc[t] = "m_seq"
    /\ UNCHANGED <<queue_vars, op, out, log_vars>>
    /\ LET c == CellOf(pos[t])
           s == m_ring_pos[c]
           diff == DeqDiff(s, pos[t])
       IN  IF diff <= 0
             THEN /\ Return(t, IF diff = 0 THEN "false" ELSE "true")
                  /\ Track(t, "return")
             ELSE /\ pc' = [pc EXCEPT ![t] = "m_reload"]
                  /\ seq' = [seq EXCEPT ![t] = s]
                  /\ cell' = [cell EXCEPT ![t] = c]
                  /\ UNCHANGED <<ret, pos, data>>
                  /\ Track(t, "step")

\* pos = m_dequeue_pos.load(relaxed), in the diff > 0 branch
Emp_Reload(t) ==
    /\ pc[t] = "m_reload"
    /\ pos' = [pos EXCEPT ![t] = m_dequeue_pos]
    /\ pc' = [pc EXCEPT ![t] = "m_seq"]
    /\ UNCHANGED <<queue_vars, op, seq, cell, data, out, ret, log_vars>>
    /\ Track(t, "step")

\* ------------------------------------------------------------ specification
Next ==
    \/ \E n \in 0 .. MaxElems : Construct(n)
    \/ \E t \in Threads :
         \/ Enq_Begin(t) \/ Enq_LoadSeq(t) \/ Enq_CAS(t) \/ Enq_Reload(t)
         \/ Enq_Write(t) \/ Enq_Publish(t)
         \/ Deq_Begin(t) \/ Deq_LoadSeq(t) \/ Deq_CAS(t) \/ Deq_Reload(t)
         \/ Deq_Read(t) \/ Deq_Rearm(t)
         \/ Emp_Begin(t) \/ Emp_LoadSeq(t) \/ Emp_Reload(t)

Spec == Init /\ [][Next]_vars

\* A run of any length (the cursors pass 2^WordBits), not recorded ticket by
\* ticket; every enqueue passes the same value.
LongInit == Start /\ logging = FALSE

LongSpec == LongInit /\ [][Next]_vars


\* =================================================================== claims
\* Thread t's call returns in this step.
Returns(t) == pc[t] # "idle" /\ pc'[t] = "idle"

\* Thread t's call returns r in this step.
ReturnsWith(t, r) == Returns(t) /\ ret'[t] = r

\* A loop iteration of thread t ends in this step without leaving the loop.
BackEdge(t) ==
    /\ pc[t] \in {"e_cas", "e_reload", "d_cas", "d_reload", "m_reload"}
    /\ pc'[t] \in {"e_seq", "d_seq", "m_seq"}

\* The cursor thread t's call works on.
Cursor(t) == IF op[t] = "enqueue" THEN m_enqueue_pos ELSE m_dequeue_pos

\* The cursor of thread t's call is more than 2^(WordBits - 1) - n_elems
\* tickets ahead of the pos the call holds.
Overtaken(t) == Sub(Cursor(t), pos[t]) > (Word \div 2) - n_elems

\* The step of thread t is a CAS that fails although the cursor equals pos.
SpuriousFailure(t) ==
    /\ pc[t] \in {"e_cas", "d_cas"}
    /\ BackEdge(t)
    /\ Cursor(t) = pos[t]

\* The values of the enqueues that returned true.
EnqueuedOK == {enq_log[p + 1] : p \in published}

\* The values the dequeues that returned true have output.
DequeuedOK == {x[2] : x \in deq_log}

Quiescent == \A t \in Threads : pc[t] = "idle"

\* The powers of two from 2 on that a size_t holds.
IsPow2From2(n) == \E k \in 1 .. WordBits - 1 : n = 2 ^ k

\* ---- C1
C1_Safe ==
    /\ \A x \in deq_log : x[2] \in EnqueuedOK
    /\ \A x, y \in deq_log : x[2] = y[2] => x = y
    /\ Cardinality(deq_log) = n_deq_ok
    /\ \A i, j \in 1 .. Len(enq_log) : enq_log[i] = enq_log[j] => i = j

C1_Drained ==
    \A t \in Threads :
        (solo[t] /\ op[t] = "dequeue" /\ ReturnsWith(t, "false"))
            => (DequeuedOK = EnqueuedOK /\ Cardinality(published) = Len(enq_log))

\* C1: no loss, no duplication.  In every state, every value a dequeue that
\* returned true has output is the value of an enqueue that returned true,
\* no value was output by two dequeues (values are fresh per enqueue call),
\* and when a dequeue that ran with every other thread quiescent returns
\* false, every value whose enqueue returned true has been output by a
\* dequeue.
C1_NoLossNoDup == [](C1_Safe) /\ [][C1_Drained]_vars

C1_Witness ==
    /\ Quiescent
    /\ ~seq_run
    /\ n_deq_ok >= 3
    /\ Cardinality(published) = n_deq_ok
    /\ \E t \in Threads : op[t] = "dequeue" /\ ret[t] = "false"


\* ---- C2
C2_TicketValue ==
    \A x \in deq_log : x[1] < Len(enq_log) /\ x[2] = enq_log[x[1] + 1]

C2_TicketOrder ==
    \A t \in Threads :
        /\ (pc[t] = "e_cas" /\ pc'[t] = "e_write")
              => (pos[t] = Len(enq_log) /\ enq_log' = Append(enq_log, data[t]))
        /\ (pc[t] = "d_cas" /\ pc'[t] = "d_read")
              => (\A x \in deq_log : x[1] < pos[t])
        /\ (pc[t] = "d_rearm" /\ Returns(t))
              => (out'[t] = enq_log[pos[t] + 1])

\* C2: FIFO per ticket.  The dequeue that moved m_dequeue_pos from p to
\* p + 1 outputs the value of the enqueue that moved m_enqueue_pos from p to
\* p + 1; an enqueue's ticket is the number of enqueues that advanced the
\* cursor before it, and a dequeue's ticket is greater than the ticket of
\* every dequeue that returned before it claimed its own, so the values one
\* consumer outputs are in the order in which m_enqueue_pos was advanced.
C2_FifoPerTicket == [](C2_TicketValue) /\ [][C2_TicketOrder]_vars

C2_Witness ==
    /\ ~seq_run
    /\ \E x, y \in deq_log : x[1] = 1 /\ y[1] = n_elems + 1
    /\ \E t \in Threads : op[t] = "dequeue" /\ ret[t] = "true" /\ out[t] = enq_log[3]

\* ---- C3
\* C3: capacity bound.  The number of tickets whose enqueue has done its
\* release store and whose dequeue has not yet done its release store never
\* exceeds the number of elements the queue was constructed with.
C3_CapacityBound ==
    ctor = "ok" => Cardinality(published \ rearmed) <= n_elems

C3_Witness ==
    /\ n_elems = 2
    /\ Cardinality(published \ rearmed) = n_elems
    /\ rearmed # {}
    /\ \E t \in Threads : op[t] = "enqueue" /\ ret[t] = "false"

\* ---- C4
C4_Answers ==
    \A t \in Threads :
        (seq_run /\ Returns(t)) => (ret'[t] = exp[t].r /\ out'[t] = exp[t].o)

\* C4: sequential equivalence to a bounded FIFO.  As long as no two calls
\* have overlapped, every enqueue, dequeue and empty call returns what a
\* FIFO of capacity n_elems = capacity() returns to the same sequence of
\* calls, and a dequeue that returns true outputs that FIFO's oldest item.
C4_SequentialFifo ==
    /\ [](ctor = "ok" => (Capacity = n_elems /\ IsPow2From2(n_elems)))
    /\ [][C4_Answers]_vars

C4_Witness ==
    /\ seq_run
    /\ Quiescent
    /\ n_elems = 2
    /\ Len(ref) = 2
    /\ n_deq_ok = 2
    /\ ret[1] = "false" /\ op[1] = "enqueue"
    /\ ret[2] = "false" /\ op[2] = "empty"

\* ---- C5
C5_FullSeen ==
    \A t \in Threads :
        (op[t] = "enqueue" /\ ReturnsWith(t, "false"))
            => ("full" \in seen[t] \/ "items_full" \in seen[t])

C5_SlotSeen ==
    \A t \in Threads :
        (op[t] = "enqueue" /\ ReturnsWith(t, "false") /\ ~Overtaken(t))
            => "slot_full" \in seen[t]

C6_EmptySeen ==
    \A t \in Threads :
        (op[t] = "dequeue" /\ ReturnsWith(t, "false"))
            => ("empty" \in seen[t] \/ "items_empty" \in seen[t])

C6_SlotSeen ==
    \A t \in Threads :
        (op[t] = "dequeue" /\ ReturnsWith(t, "false") /\ ~Overtaken(t))
            => "slot_empty" \in seen[t]

C7_Frame ==
    \A t \in Threads :
        /\ (op[t] \in {"enqueue", "dequeue"} /\ ReturnsWith(t, "false"))
              => (~wrote[t] /\ Shared' = Shared /\ out'[t] = out[t] /\ out[t] = NoVal)
        /\ (op[t] \in {"enqueue", "dequeue"} /\ ReturnsWith(t, "true")) => wrote[t]
        /\ (wrote[t] /\ Returns(t)) => ret'[t] = "true"
        /\ (pc[t] = "e_cas" /\ pc'[t] # pc[t] /\ m_enqueue_pos' # m_enqueue_pos)
              => pc'[t] = "e_write"
        /\ (pc[t] = "d_cas" /\ pc'[t] # pc[t] /\ m_dequeue_pos' # m_dequeue_pos)
              => pc'[t] = "d_read"
        /\ (pc[t] = "e_write" /\ pc'[t] # pc[t])
              => (pc'[t] = "e_pub" /\ m_ring_data'[cell[t]] = data[t])
        /\ (pc[t] = "d_read" /\ pc'[t] # pc[t])
              => (pc'[t] = "d_rearm" /\ out'[t] = m_ring_data[cell[t]])
        /\ (pc[t] = "e_pub" /\ pc'[t] # pc[t])
              => (ReturnsWith(t, "true") /\ m_ring_pos'[cell[t]] = Add(pos[t], 1))
        /\ (pc[t] = "d_rearm" /\ pc'[t] # pc[t])
              => (ReturnsWith(t, "true") /\ m_ring_pos'[cell[t]] = Add(pos[t], n_elems))

C7_Committed ==
    \A t \in Threads :
        /\ wrote[t] <=> pc[t] \in {"e_write", "e_pub", "d_read", "d_rearm"}
        /\ pc[t] = "e_write" => ENABLED Enq_Write(t)
        /\ pc[t] = "e_pub" => ENABLED Enq_Publish(t)
        /\ pc[t] = "d_read" => ENABLED Deq_Read(t)
        /\ pc[t] = "d_rearm" => ENABLED Deq_Rearm(t)

\* C7: no partial failure.  An enqueue or dequeue that returns false has
\* changed no cursor, no cell's sequence, no cell's payload and not the
\* output variable; a call has changed something exactly when it has won
\* its cursor CAS, and from then on its only steps, never disabled, are the
\* payload access, the release store on the cell's sequence and the return
\* of true.
C7_NoPartialFailure == [](C7_Committed) /\ [][C7_Frame]_vars

C7_Witness ==
    /\ ~seq_run
    /\ \E t, u \in Threads :
          /\ op[t] = "dequeue" /\ ret[t] = "false" /\ out[t] = NoVal
          /\ op[u] = "enqueue" /\ pc[u] = "e_pub" /\ wrote[u]
          /\ m_ring_data[cell[u]] = data[u]

\* ---- C8
C8_Fresh == \A t \in Threads : op[t] = "none"

\* C8: construction.  The constructor aborts for every n_elems below 2 or
\* not a power of two (0, 1, 3 and 6 among them) and succeeds for every
\* power of two from 2 on; right after a successful construction cell i has
\* sequence i for every i in 0 .. n_elems - 1, both cursors are 0 and
\* capacity() is n_elems.
C8_Construction ==
    /\ ctor = "aborted" => ~IsPow2From2(n_elems)
    /\ ctor = "ok" => IsPow2From2(n_elems)
    /\ n_elems \in {0, 1, 3, 6} => ctor # "ok"
    /\ (ctor = "ok" /\ C8_Fresh) =>
          /\ DOMAIN m_ring_pos = 0 .. n_elems - 1
          /\ \A i \in 0 .. n_elems - 1 : m_ring_pos[i] = i
          /\ m_enqueue_pos = 0
          /\ m_dequeue_pos = 0
    /\ ctor = "ok" => Capacity = n_elems

C8_Witness == ctor = "aborted" /\ n_elems = 6

\* ---- C9
C9_OneIteration ==
    \A t \in Threads :
        (solo[t] /\ BackEdge(t)) => SpuriousFailure(t)

C9_SoloInLoop ==
    \A t \in Threads :
        solo[t] =>
            /\ pc[t] \notin {"e_reload", "d_reload"}
            /\ pc[t] = "e_seq" => ENABLED Enq_LoadSeq(t)
            /\ pc[t] = "d_seq" => ENABLED Deq_LoadSeq(t)
            /\ (pc[t] = "e_cas" => m_enqueue_pos = pos[t])
            /\ (pc[t] = "d_cas" => m_dequeue_pos = pos[t])

\* C9: progress under quiescence.  A call to enqueue or dequeue that starts
\* with no other call in flight, while no other thread takes a step, never
\* ends a loop iteration without leaving the loop unless its CAS fails
\* spuriously: it never reaches the reload branch, and its CAS finds the
\* cursor equal to pos.
C9_QuiescentProgress == [](C9_SoloInLoop) /\ [][C9_OneIteration]_vars

C9_Witness ==
    \E t \in Threads :
        /\ solo[t]
        /\ pc[t] = "e_cas"
        /\ pos[t] = n_elems + 1
        /\ ~seq_run

\* ---- C10
C10_Retry ==
    \A t \in Threads :
        (BackEdge(t) /\ ~SpuriousFailure(t))
            => /\ Cursor(t) # pos[t]
               /\ SignedDiff(Cursor(t), pos[t]) > 0
               /\ pos'[t] = Cursor(t)
               /\ SignedDiff(pos'[t], pos[t]) > 0

\* C10: lock-freedom of the retry loops.  Whenever a loop iteration of
\* enqueue, dequeue or empty ends without leaving the loop, other than by a
\* spurious CAS failure, the cursor has been advanced past the value the
\* thread last read, and the thread's pos after the retry is strictly
\* greater than before.
C10_LockFree == [][C10_Retry]_vars

C10_Witness ==
    \E t \in Threads :
        /\ op[t] = "empty"
        /\ pc[t] = "m_reload"
        /\ m_dequeue_pos = Add(pos[t], 1)

\* ---- C11
\* The threads that are scheduled fairly; the others may stop anywhere, also
\* between a cursor CAS and the release store that follows it.
Running == {1}

\* A step of thread t inside a call (starting a call is the caller's choice).
Proceed(t) ==
    \/ Enq_LoadSeq(t) \/ Enq_CAS(t) \/ Enq_Reload(t) \/ Enq_Write(t) \/ Enq_Publish(t)
    \/ Deq_LoadSeq(t) \/ Deq_CAS(t) \/ Deq_Reload(t) \/ Deq_Read(t) \/ Deq_Rearm(t)
    \/ Emp_LoadSeq(t) \/ Emp_Reload(t)

\* The CAS of thread t succeeds.
CAS_Succeeds(t) ==
    \/ Enq_CAS(t) /\ pc'[t] = "e_write"
    \/ Deq_CAS(t) /\ pc'[t] = "d_read"

\* A running thread keeps taking steps, and its compare_exchange_weak does
\* not fail forever while the cursor holds the expected value.
Fairness ==
    \A t \in Running : WF_vars(Proceed(t)) /\ SF_vars(CAS_Succeeds(t))

FairSpec == Spec /\ Fairness

\* C11: non-blocking termination.  With finitely many calls that advance a
\* cursor, every call of a thread that is scheduled fairly eventually
\* returns true or false, whatever the other threads do: they may run, or
\* stop for ever at any step, also between a cursor CAS and the release
\* store that follows it.
C11_NonBlocking ==
    \A t \in Running :
        (pc[t] # "idle") ~> (pc[t] = "idle" /\ ret[t] \in {"true", "false"})

C11_Witness ==
    \E t \in Running, u \in Threads \ Running :
        /\ pc[u] = "e_pub" /\ pos[u] = 0
        /\ op[t] = "dequeue" /\ ret[t] = "false" /\ pc[t] = "idle"
        /\ published = {1}

\* ---- C12
\* The queue is empty and quiescent with both cursors at a multiple of
\* n_elems.
AtWrap ==
    /\ ctor = "ok"
    /\ Quiescent
    /\ m_enqueue_pos = m_dequeue_pos
    /\ BitAnd(m_enqueue_pos, m_capacity) = 0

\* At such a point the queue is the constructed queue with every position
\* k * n_elems further: on the size_t values and on the unbounded ones.
C12_Shape ==
    AtWrap =>
        /\ \A i \in DOMAIN m_ring_pos : m_ring_pos[i] = Add(m_enqueue_pos, i)
        /\ \A t \in Threads : pos[t] = 0 /\ seq[t] = 0 /\ cell[t] = 0
        /\ ~diverged =>
              /\ W_enq = W_deq
              /\ W_enq % n_elems = 0
              /\ W_enq % Word = m_enqueue_pos
              /\ \A i \in DOMAIN W_ring : W_ring[i] = W_enq + i

\* Every test and every store of the three operations gives the same on
\* positions k * n_elems further as on the positions the run holds.
C12_Shift ==
    ctor = "ok" =>
        \A k \in 0 .. (Word \div n_elems) - 1 :
            LET s == k * n_elems
                P == {pos[t] : t \in Threads} \cup {m_enqueue_pos, m_dequeue_pos}
                S == {m_ring_pos[i] : i \in DOMAIN m_ring_pos}
            IN  \A p \in P :
                   /\ CellOf(Add(p, s)) = CellOf(p)
                   /\ PublishValue(Add(p, s)) = Add(PublishValue(p), s)
                   /\ RearmValue(Add(p, s)) = Add(RearmValue(p), s)
                   /\ (Add(p, s) = Add(m_enqueue_pos, s)) <=> (p = m_enqueue_pos)
                   /\ (Add(p, s) = Add(m_dequeue_pos, s)) <=> (p = m_dequeue_pos)
                   /\ \A x \in S :
                         /\ EnqDiff(Add(x, s), Add(p, s)) = EnqDiff(x, p)
                         /\ DeqDiff(Add(x, s), Add(p, s)) = DeqDiff(x, p)

\* A call of a run without overlapping calls returns what the reference
\* FIFO, empty at construction, returns.
C12_SameAsFresh ==
    \A t \in Threads :
        (seq_run /\ Returns(t)) => (ret'[t] = exp[t].r /\ out'[t] = exp[t].o)

\* C12: wrap correctness.  Whenever the queue is empty and quiescent with
\* both cursors at k * n_elems (after any number of operations, also past
\* 2^WordBits), cell i has sequence k * n_elems + i for every i and no
\* frame is left, i.e. the state is the constructed state with every
\* position k * n_elems further; every test and store of the operations is
\* invariant under such a shift, and a run without overlapping calls keeps
\* answering as a FIFO that was empty at construction.
C12_WrapCorrect == [](C12_Shape /\ C12_Shift) /\ [][C12_SameAsFresh]_vars

C12_Witness ==
    /\ ~logging
    /\ AtWrap
    /\ n_elems = 4
    /\ m_enqueue_pos = 12
    /\ m_ring_pos[3] = 15
    /\ ~seq_run
    /\ \E t \in Threads : op[t] = "dequeue" /\ ret[t] = "true"

\* ---- C13
C13_MomentSeen ==
    \A t \in Threads :
        /\ (op[t] = "empty" /\ ReturnsWith(t, "true"))
              => ("empty" \in seen[t] \/ "items_empty" \in seen[t])
        /\ (op[t] = "empty" /\ ReturnsWith(t, "false"))
              => ("nonempty" \in seen[t] \/ "items_nonempty" \in seen[t])

C13_SlotSeen ==
    \A t \in Threads :
        /\ (op[t] = "empty" /\ ReturnsWith(t, "true") /\ ~Overtaken(t))
              => "slot_empty" \in seen[t]
        /\ (op[t] = "empty" /\ ReturnsWith(t, "false") /\ ~Overtaken(t))
              => ("slot_nonempty" \in seen[t] /\ "nonempty" \in seen[t])

C13_ReadOnly ==
    \A t \in Threads :
        (op[t] = "empty" /\ pc[t] # "idle" /\ pc'[t] # pc[t])
            => (Shared' = Shared /\ out'[t] = out[t] /\ ~wrote[t])

C14_Distance ==
    ctor = "ok" =>
        /\ m_dequeue_pos <= m_enqueue_pos
        /\ m_enqueue_pos - m_dequeue_pos <= n_elems
        /\ Sub(m_enqueue_pos, m_dequeue_pos) \in 0 .. n_elems
        /\ ~diverged => (W_enq - W_deq) \in 0 .. n_elems

C14_Claims ==
    \A t \in Threads :
        /\ (pc[t] = "d_cas" /\ pc'[t] = "d_read")
              => (pos[t] \in published /\ m_ring_pos[CellOf(pos[t])] = Add(pos[t], 1))
        /\ (pc[t] = "e_cas" /\ pc'[t] = "e_write")
              => /\ pos[t] >= n_elems => (pos[t] - n_elems) \in rearmed
                 /\ m_ring_pos[CellOf(pos[t])] = pos[t]

\* C14: cursor distance.  In every state m_enqueue_pos - m_dequeue_pos is
\* between 0 and n_elems; a consumer's cursor CAS succeeds only for a ticket
\* whose producer has done its release store, and a producer's cursor CAS
\* succeeds only for a ticket pos whose cell has been re-armed by the
\* consumer of ticket pos - n_elems (or is in its constructed state, for
\* pos < n_elems).
C14_CursorDistance == [](C14_Distance) /\ [][C14_Claims]_vars

C14_Witness ==
    /\ n_elems = 2
    /\ m_enqueue_pos = 4
    /\ m_dequeue_pos = 2
    /\ 1 \in rearmed
    /\ \E t \in Threads : pc[t] = "e_write" /\ pos[t] = 3
    /\ \E u \in Threads : pc[u] = "d_cas" /\ pos[u] = 2

\* ---- C15
\* s is k * n_elems + i for some k >= 0.
Writable(i, s) == s >= i /\ (s - i) % n_elems = 0

\* s is k * n_elems + i + 1 for some k >= 0.
Readable(i, s) == s >= i + 1 /\ (s - i - 1) % n_elems = 0

C15_Values ==
    ctor = "ok" =>
        \A i \in DOMAIN m_ring_pos :
            Writable(i, m_ring_pos[i]) \/ Readable(i, m_ring_pos[i])

C15_Changes ==
    ctor = "ok" =>
        \A i \in DOMAIN m_ring_pos :
            \/ m_ring_pos'[i] = m_ring_pos[i]
            \/ /\ Writable(i, m_ring_pos[i])
               /\ m_ring_pos'[i] = m_ring_pos[i] + 1
               /\ \E t \in Threads : pc[t] = "e_pub" /\ pos[t] = m_ring_pos[i] /\ Returns(t)
            \/ /\ Readable(i, m_ring_pos[i])
               /\ m_ring_pos'[i] = m_ring_pos[i] - 1 + n_elems
               /\ \E t \in Threads : pc[t] = "d_rearm" /\ pos[t] + 1 = m_ring_pos[i] /\ Returns(t)

\* C15: cell sequences.  In every state the sequence of cell i is
\* k * n_elems + i or k * n_elems + i + 1 for some k >= 0, and it changes
\* only from k * n_elems + i to k * n_elems + i + 1, by the release store of
\* the producer holding ticket k * n_elems + i, or from k * n_elems + i + 1
\* to (k + 1) * n_elems + i, by the release store of the consumer holding
\* that ticket; so it never decreases.
C15_CellSequence ==
    /\ [](C15_Values)
    /\ [][C15_Changes /\ (ctor = "ok" => \A i \in DOMAIN m_ring_pos : m_ring_pos'[i] >= m_ring_pos[i])]_vars

C15_Witness ==
    /\ n_elems = 4
    /\ m_ring_pos[0] = 5
    /\ m_ring_pos[1] = 5
    /\ m_ring_pos[3] = 4

\* ---- C16
C16_Step ==
    /\ \/ m_enqueue_pos' = m_enqueue_pos /\ m_dequeue_pos' = m_dequeue_pos
       \/ m_enqueue_pos' = m_enqueue_pos + 1 /\ m_dequeue_pos' = m_dequeue_pos
       \/ m_enqueue_pos' = m_enqueue_pos /\ m_dequeue_pos' = m_dequeue_pos + 1
    /\ m_enqueue_pos' # m_enqueue_pos
          => \E t \in Threads : op[t] = "enqueue" /\ ~wrote[t] /\ wrote'[t]
    /\ m_dequeue_pos' # m_dequeue_pos
          => \E t \in Threads : op[t] = "dequeue" /\ ~wrote[t] /\ wrote'[t]

C16_PerCall ==
    \A t \in Threads :
        /\ (op[t] = "enqueue" /\ pc[t] # "idle" /\ ~wrote[t] /\ wrote'[t])
              => m_enqueue_pos' = m_enqueue_pos + 1
        /\ (op[t] = "dequeue" /\ pc[t] # "idle" /\ ~wrote[t] /\ wrote'[t])
              => m_dequeue_pos' = m_dequeue_pos + 1
        /\ (op[t] = "enqueue" /\ ReturnsWith(t, "true"))
              => (wrote[t] /\ Cardinality(published') = Cardinality(published) + 1)
        /\ (op[t] = "dequeue" /\ ReturnsWith(t, "true"))
              => (wrote[t] /\ n_deq_ok' = n_deq_ok + 1)
        /\ (op[t] \in {"enqueue", "dequeue"} /\ ReturnsWith(t, "false")) => ~wrote[t]

C16_Counts ==
    /\ Len(enq_log) = m_enqueue_pos
    /\ Cardinality(published) + Cardinality({t \in Threads : pc[t] \in {"e_write", "e_pub"}})
          = m_enqueue_pos
    /\ n_deq_ok + Cardinality({t \in Threads : pc[t] \in {"d_read", "d_rearm"}})
          = m_dequeue_pos
    /\ Quiescent => (Cardinality(published) = m_enqueue_pos /\ n_deq_ok = m_dequeue_pos)

\* C16: cursor steps.  Every step leaves both cursors unchanged or adds
\* exactly 1 to exactly one of them; a cursor moves only in the first step
\* in which an enqueue (for m_enqueue_pos) or dequeue (for m_dequeue_pos)
\* call changes anything, a call that returns true has taken that step and
\* a call that returns false has changed nothing; so at quiescence
\* m_enqueue_pos is the number of enqueues that returned true and
\* m_dequeue_pos the number of dequeues that returned true.
C16_CursorSteps == [](C16_Counts) /\ [][C16_Step /\ C16_PerCall]_vars

C16_Witness ==
    /\ Quiescent
    /\ ~seq_run
    /\ m_enqueue_pos = 4
    /\ m_dequeue_pos = 2
    /\ \E t \in Threads : op[t] = "enqueue" /\ ret[t] = "false"
    /\ \E t \in Threads : op[t] = "dequeue" /\ ret[t] = "true"

\* ---- C17
\* The threads between their successful cursor CAS and their release store
\* on cell c.
Holders(c) ==
    {t \in Threads : pc[t] \in {"e_write", "e_pub", "d_read", "d_rearm"} /\ cell[t] = c}

C17_Exclusive ==
    ctor = "ok" =>
        /\ \A c \in DOMAIN m_ring_pos : Cardinality(Holders(c)) <= 1
        /\ \A t \in Threads :
              pc[t] \in {"e_write", "e_pub", "d_read", "d_rearm"} => cell[t] = CellOf(pos[t])
        /\ \A p \in published \ rearmed : m_ring_data[CellOf(p)] = enq_log[p + 1]

C17_Order ==
    \A t \in Threads :
        /\ (pc[t] = "d_read" /\ pc'[t] = "d_rearm")
              => /\ pos[t] \in published
                 /\ pos[t] \notin rearmed
                 /\ out'[t] = enq_log[pos[t] + 1]
        /\ (pc[t] = "e_write" /\ pc'[t] = "e_pub")
              => /\ pos[t] \notin published
                 /\ pos[t] >= n_elems => (pos[t] - n_elems) \in rearmed
        /\ (pc[t] = "e_pub" /\ Returns(t)) => m_ring_data[cell[t]] = enq_log[pos[t] + 1]
        /\ (pc[t] = "d_rearm" /\ Returns(t)) => out[t] = enq_log[pos[t] + 1]

\* C17: exclusive cell claim.  In every state at most one thread is between
\* its successful cursor CAS and its release store on a given cell, as
\* producer or as consumer; the payload read of the dequeue with ticket p
\* happens after the release store, hence after the payload write, of the
\* enqueue with ticket p, and the payload write of the enqueue with ticket
\* p + n_elems after the release store, hence after the payload read, of
\* the dequeue with ticket p.
C17_ExclusiveCell == [](C17_Exclusive) /\ [][C17_Order]_vars

C17_Witness ==
    /\ n_elems = 2
    /\ \E t, u \in Threads :
          /\ pc[t] = "e_write" /\ pos[t] = 2
          /\ pc[u] = "d_read" /\ pos[u] = 1
          /\ Holders(0) = {t}
          /\ Holders(1) = {u}

\* ---- C18
\* How many tickets the cursor of thread t's call is ahead of its pos.
Lag(t) == WCursor(op[t]) - W_pos[t]

\* While every branch has agreed, each size_t value is the unbounded value
\* modulo 2^WordBits.
C18_Congruent ==
    (ctor = "ok" /\ ~diverged) =>
        /\ m_enqueue_pos = W_enq % Word
        /\ m_dequeue_pos = W_deq % Word
        /\ \A i \in DOMAIN m_ring_pos : m_ring_pos[i] = W_ring[i] % Word
        /\ \A t \in Threads :
              pc[t] # "idle" => (pos[t] = W_pos[t] % Word /\ CellOf(W_pos[t]) = CellOf(pos[t]))

\* C18 as stated: for n_elems < 2^(WordBits - 1), in every run, also one in
\* which the cursors pass 2^WordBits, every branch of every call goes the
\* way it goes with unbounded integers (so every call returns the same).
C18_SameAsUnbounded == ~diverged

C18_FirstDivergence ==
    (~diverged /\ diverged') =>
        \E t \in Threads :
            /\ pc'[t] # pc[t]
            /\ pc[t] \in {"e_seq", "d_seq", "m_seq"}
            /\ Lag(t) > (Word \div 2) - n_elems

\* C18 amended: with n_elems < 2^(WordBits - 1), also across cursor
\* overflow, the size_t values stay the unbounded values modulo 2^WordBits
\* and every branch goes the way it goes with unbounded integers, as long
\* as no call reads a cell's sequence while its cursor is more than
\* 2^(WordBits - 1) - n_elems tickets ahead of the call's pos; the first
\* branch that differs is the branch on diff of such a call.
C18_WrapTolerance == [](C18_Congruent) /\ [][C18_FirstDivergence]_vars

C18_Witness ==
    /\ ~logging
    /\ ~diverged
    /\ n_elems = 4
    /\ m_dequeue_pos = 14
    /\ m_enqueue_pos = 1
    /\ W_enq = 17
    /\ \E t \in Threads : op[t] = "enqueue" /\ ret[t] = "false" /\ pc[t] = "idle"
    /\ \E u \in Threads : pc[u] = "d_rearm" /\ pos[u] = 13

C19_Overtaken ==
    \A t \in Threads :
        (pc[t] = "d_seq" /\ pc'[t] = "d_reload")
            => /\ ~solo[t]
               /\ pos[t] \in rearmed
               /\ m_ring_pos[CellOf(pos[t])] >= pos[t] + n_elems
               /\ m_dequeue_pos > pos[t]

C19_Reloaded ==
    \A t \in Threads :
        pc[t] = "d_reload" =>
            /\ pos[t] \in rearmed
            /\ m_dequeue_pos > pos[t]
            /\ ENABLED Deq_Reload(t)

NoneInFlight == \A t \in Threads : pc[t] = "idle" \/ op[t] = "empty"

\* C20: quiescent ring shape.  In every state in which no enqueue or
\* dequeue call is in flight, for every position p from m_dequeue_pos to
\* m_dequeue_pos + n_elems - 1 the cell at p & m_capacity has sequence
\* p + 1 and holds the value of ticket p if p < m_enqueue_pos, and has
\* sequence p otherwise; so exactly m_enqueue_pos - m_dequeue_pos cells are
\* readable, the contiguous run from m_dequeue_pos & m_capacity on.
C20_QuiescentShape ==
    (ctor = "ok" /\ NoneInFlight) =>
        /\ \A p \in m_dequeue_pos .. m_dequeue_pos + n_elems - 1 :
              IF p < m_enqueue_pos
                THEN /\ m_ring_pos[CellOf(p)] = p + 1
                     /\ m_ring_data[CellOf(p)] = enq_log[p + 1]
                     /\ p \in published \ rearmed
                ELSE m_ring_pos[CellOf(p)] = p
        /\ Cardinality({i \in DOMAIN m_ring_pos : Readable(i, m_ring_pos[i])})
              = m_enqueue_pos - m_dequeue_pos
        /\ {i \in DOMAIN m_ring_pos : Readable(i, m_ring_pos[i])}
              = {CellOf(p) : p \in m_dequeue_pos .. m_enqueue_pos - 1}

C20_Witness ==
    /\ NoneInFlight
    /\ ~seq_run
    /\ n_elems = 4
    /\ m_dequeue_pos = 3
    /\ m_enqueue_pos = 5
    /\ m_ring_pos[3] = 4
    /\ m_ring_pos[0] = 5
    /\ m_ring_pos[1] = 5
    /\ \E t \in Threads : pc[t] = "m_seq"

====
